---- MODULE Spec2Model ----
(***************************************************************************)
(* Model of zhmcclient's resource property cache (BaseResource, in         *)
(* _resource.py) and of the HBA manager and resource (HbaManager and Hba,  *)
(* in _hba.py).                                                            *)
(*                                                                         *)
(* A resource object is a record [properties, full, ts]: the _properties   *)
(* dictionary, the _full_properties flag and _properties_timestamp.        *)
(* A call of a method is an operator that returns a record                 *)
(*   [outcome, value, self, calls]                                         *)
(* where outcome is "return" or the name of the exception raised, value    *)
(* the returned value, self the object after the call and calls the        *)
(* transport calls the method issued, in order, each with its result       *)
(* ("return" or the error the transport raised).                           *)
(***************************************************************************)
EXTENDS Integers, Sequences, FiniteSets, TLC

VARIABLES
    objs,      \* the resource objects constructed so far
    remote,    \* the HMC: for each URI, whether it exists and its properties
    clock,     \* int(time.time())
    last       \* what the last operation was given, did and gave back

vars == <<objs, remote, clock, last>>

\* ------------------------------------------------------------------ bounds
MaxObjs == 2
MaxClock == 1
\* Python's recursion limit (sys.getrecursionlimit() is 1000), scaled down;
\* the deepest call chain that ends is list > _matches_filters > get_property
\* > pull_full_properties > get_property.
RecursionLimit == 8
\* a call's transport oracle names the transport call that fails, if any
MaxFailAt == 1

\* ------------------------------------------------------------- data domain
\* Python's None
NoneValue == "None"

\* the empty dictionary
EmptyMap == [n \in {} |-> NoneValue]

PartitionUri == "/p1"
HbaUris == {"/h1", "/h2"}
URIs == {PartitionUri} \cup HbaUris

\* What the HMC can hold under a URI (the full property set of the entity).
RemoteMaps(u) ==
    IF u = PartitionUri
    THEN { [n \in {"object-uri", "name"} |->
               IF n = "object-uri" THEN u ELSE "a"],
           ("object-uri" :> u) @@ ("name" :> "a") @@ ("hba-uris" :> <<>>),
           ("object-uri" :> u) @@ ("name" :> "a")
               @@ ("hba-uris" :> <<"/h1", "/h2">>) }
    ELSE IF u = "/h1"
    THEN { ("element-uri" :> u) @@ ("name" :> "a"), ("element-uri" :> u) }
    ELSE { ("element-uri" :> u) @@ ("name" :> "b") }

\* The entities that other clients change and delete; the others stay.
Volatile == {PartitionUri, "/h1"}

RemoteEntities(u) ==
    {[exists |-> FALSE, props |-> EmptyMap]}
        \cup {[exists |-> TRUE, props |-> m] : m \in RemoteMaps(u)}

\* The dictionaries a caller hands to the BaseResource constructor.
InitProps ==
    { EmptyMap,
      ("element-uri" :> "/h1"),
      ("object-uri" :> PartitionUri),
      ("object-uri" :> PartitionUri) @@ ("hba-uris" :> <<"/h2", "/h1">>),
      ("object-uri" :> "/h1") @@ ("name" :> "b") }

PropNames == {"object-uri", "element-uri", "hba-uris", "name"}

ErrorKinds == {"TransportError", "AuthError"}

\* The oracle of one operation: its at-th transport call fails with kind
\* (at = 0: none fails).
Oracles == {[at |-> 0, kind |-> "TransportError"]}
               \cup [at : 1..MaxFailAt, kind : ErrorKinds]

\* ------------------------------------------------------------ call results
Return(v, self, calls) ==
    [outcome |-> "return", value |-> v, self |-> self, calls |-> calls]

Raise(e, self, calls) ==
    [outcome |-> e, value |-> NoneValue, self |-> self, calls |-> calls]

\* dict.update: the items of other overwrite those of d
update(d, other) == other @@ d

\* a call's result assigned to a local variable: F of the value of x
Bind(x, F(_)) == CHOOSE y \in {F(v) : v \in {x}} : TRUE

\* ----------------------------------------------------- transport (session)
\* session.get(uri), the (Len(calls) + 1)-th transport call of the operation
session_get(uri, calls, oracle) ==
    IF oracle.at = Len(calls) + 1 THEN [outcome |-> oracle.kind, value |-> EmptyMap]
    ELSE IF ~remote[uri].exists THEN [outcome |-> "NotFoundError", value |-> EmptyMap]
    ELSE [outcome |-> "return", value |-> remote[uri].props]

\* -------------------------------------------------------------- BaseResource
\* An object is its _properties, _full_properties (full) and
\* _properties_timestamp (ts); shares says that _properties is the very
\* dictionary the caller passed in, not a dictionary of the object's own.
\* NoObj stands for an object whose __init__ did not complete.
NoObj == [properties |-> EmptyMap, full |-> FALSE, ts |-> 0, shares |-> FALSE]

\* BaseResource.__init__ keeping the caller's dictionary
BaseResource_init_alias(args) ==
    IF Len(args) # 2
    THEN Raise("TypeError", NoObj, <<>>)
    ELSE Return(NoneValue,
                [properties |-> args[2], full |-> FALSE, ts |-> clock,
                 shares |-> TRUE],
                <<>>)

\* BaseResource.__init__(self, manager, properties), called with the
\* positional arguments args (self not counted): Python raises TypeError when
\* their number is not the number of parameters.
BaseResource_init(args) ==
    IF Len(args) # 2
    THEN Raise("TypeError", NoObj, <<>>)
    ELSE Return(NoneValue,
                [properties |-> args[2], full |-> FALSE, ts |-> clock,
                 shares |-> FALSE],
                <<>>)

RECURSIVE get_property(_, _, _, _, _), pull_full_properties(_, _, _, _)

\* pull_full_properties marking the object complete before the transport has
\* answered
pull_full_properties_flag_first(self, calls, oracle, depth) ==
    IF depth > RecursionLimit THEN Raise("RecursionError", self, calls)
    ELSE
    Bind(get_property(self, "object-uri", calls, oracle, depth + 1), LAMBDA u :
    IF u.outcome # "return" THEN u
    ELSE
    Bind(session_get(u.value, u.calls, oracle), LAMBDA r :
    LET issued == Append(u.calls, [method |-> "get", uri |-> u.value,
                                   result |-> r.outcome])
    IN  IF r.outcome # "return"
        THEN Raise(r.outcome, [u.self EXCEPT !.full = TRUE, !.ts = clock], issued)
        ELSE Return(NoneValue,
                    [properties |-> r.value, full |-> TRUE, ts |-> clock,
                     shares |-> FALSE],
                    issued)))

\* pull_full_properties forgetting completeness when the transport fails
pull_full_properties_reset(self, calls, oracle, depth) ==
    IF depth > RecursionLimit THEN Raise("RecursionError", self, calls)
    ELSE
    Bind(get_property(self, "object-uri", calls, oracle, depth + 1), LAMBDA u :
    IF u.outcome # "return" THEN u
    ELSE
    Bind(session_get(u.value, u.calls, oracle), LAMBDA r :
    LET issued == Append(u.calls, [method |-> "get", uri |-> u.value,
                                   result |-> r.outcome])
    IN  IF r.outcome # "return"
        THEN Raise(r.outcome, [u.self EXCEPT !.full = FALSE], issued)
        ELSE Return(NoneValue,
                    [properties |-> r.value, full |-> TRUE, ts |-> clock,
                     shares |-> FALSE],
                    issued)))

\* pull_full_properties updating the snapshot with what the transport read
pull_full_properties_merge(self, calls, oracle, depth) ==
    IF depth > RecursionLimit THEN Raise("RecursionError", self, calls)
    ELSE
    Bind(get_property(self, "object-uri", calls, oracle, depth + 1), LAMBDA u :
    IF u.outcome # "return" THEN u
    ELSE
    Bind(session_get(u.value, u.calls, oracle), LAMBDA r :
    LET issued == Append(u.calls, [method |-> "get", uri |-> u.value,
                                   result |-> r.outcome])
    IN  IF r.outcome # "return"
        THEN Raise(r.outcome, u.self, issued)
        ELSE Return(NoneValue,
                    [properties |-> update(u.self.properties, r.value),
                     full |-> TRUE, ts |-> clock,
                     shares |-> FALSE],
                    issued)))

\* pull_full_properties(self); calls are the transport calls the operation
\* has issued before, depth the depth of the Python call stack.
pull_full_properties(self, calls, oracle, depth) ==
    IF depth > RecursionLimit THEN Raise("RecursionError", self, calls)
    ELSE
    Bind(get_property(self, "object-uri", calls, oracle, depth + 1), LAMBDA u :
    IF u.outcome # "return" THEN u
    ELSE
    Bind(session_get(u.value, u.calls, oracle), LAMBDA r :
    LET issued == Append(u.calls, [method |-> "get", uri |-> u.value,
                                   result |-> r.outcome])
    IN  IF r.outcome # "return"
        THEN Raise(r.outcome, u.self, issued)
        ELSE Return(NoneValue,
                    [properties |-> r.value, full |-> TRUE, ts |-> clock,
                     shares |-> FALSE],
                    issued)))

\* get_property pulling again although the object is complete
get_property_refetch(self, name, calls, oracle, depth) ==
    IF depth > RecursionLimit THEN Raise("RecursionError", self, calls)
    ELSE IF name \in DOMAIN self.properties
    THEN Return(self.properties[name], self, calls)
    ELSE
    Bind(pull_full_properties(self, calls, oracle, depth + 1), LAMBDA p :
    IF p.outcome # "return" THEN p
    ELSE IF name \in DOMAIN p.self.properties
    THEN Return(p.self.properties[name], p.self, p.calls)
    ELSE Raise("KeyError", p.self, p.calls))

\* get_property completing a partial snapshot before it answers from it
get_property_refresh(self, name, calls, oracle, depth) ==
    IF depth > RecursionLimit THEN Raise("RecursionError", self, calls)
    ELSE IF name \in DOMAIN self.properties /\ (self.full \/ name = "object-uri")
    THEN Return(self.properties[name], self, calls)
    ELSE IF self.full THEN Raise("KeyError", self, calls)
    ELSE
    Bind(pull_full_properties(self, calls, oracle, depth + 1), LAMBDA p :
    IF p.outcome # "return" THEN p
    ELSE IF name \in DOMAIN p.self.properties
    THEN Return(p.self.properties[name], p.self, p.calls)
    ELSE Raise("KeyError", p.self, p.calls))

\* get_property(self, name)
get_property(self, name, calls, oracle, depth) ==
    IF depth > RecursionLimit THEN Raise("RecursionError", self, calls)
    ELSE IF name \in DOMAIN self.properties
    THEN Return(self.properties[name], self, calls)
    ELSE IF self.full THEN Raise("KeyError", self, calls)
    ELSE
    Bind(pull_full_properties(self, calls, oracle, depth + 1), LAMBDA p :
    IF p.outcome # "return" THEN p
    ELSE IF name \in DOMAIN p.self.properties
    THEN Return(p.self.properties[name], p.self, p.calls)
    ELSE Raise("KeyError", p.self, p.calls))

\* ---------------------------------------------------------------------- Hba
\* Hba.__init__(self, manager, uri, name=None, properties=None): after the
\* isinstance check it calls BaseResource.__init__ with the four positional
\* arguments manager, uri, name and properties.
Hba_init(manager, uri, name, properties) ==
    IF manager # "HbaManager"
    THEN Raise("AssertionError", NoObj, <<>>)
    ELSE BaseResource_init(<<manager, uri, name, properties>>)

\* ------------------------------------------------------------ filter matching
\* A filter is None or a dictionary, here the sequence of its items in
\* iteration order; an item requires the property name to equal the one value
\* of vals (list = FALSE) or to be one of the values of vals (list = TRUE).
NoFilter == [isNone |-> TRUE, items |-> <<>>]

Filters ==
    { NoFilter,
      [isNone |-> FALSE, items |-> <<>>],
      [isNone |-> FALSE,
       items |-> <<[name |-> "name", list |-> FALSE, vals |-> <<"a">>]>>],
      [isNone |-> FALSE,
       items |-> <<[name |-> "element-uri", list |-> FALSE, vals |-> <<"/h1">>],
                   [name |-> "name", list |-> TRUE, vals |-> <<"b", "a">>]>>] }

matches_prop(value, item) ==
    \E k \in 1..Len(item.vals) : item.vals[k] = value

RECURSIVE matches_items(_, _, _, _, _)

\* the items of the filter from the k-th on
matches_items(obj, items, k, calls, oracle) ==
    IF k > Len(items) THEN Return(TRUE, obj, calls)
    ELSE
    Bind(get_property(obj, items[k].name, calls, oracle, 4), LAMBDA g :
    IF g.outcome # "return" THEN g
    ELSE IF matches_prop(g.value, items[k])
    THEN matches_items(g.self, items, k + 1, g.calls, oracle)
    ELSE Return(FALSE, g.self, g.calls))

\* BaseManager._matches_filters(resource_obj, filter_args)
matches_filters(obj, filter_args, calls, oracle) ==
    IF filter_args.isNone THEN Return(TRUE, obj, calls)
    ELSE matches_items(obj, filter_args.items, 1, calls, oracle)

\* --------------------------------------------------------------- HbaManager
RECURSIVE list_loop(_, _, _, _, _, _, _)

\* the for loop of list, from the i-th URI on; acc is resource_obj_list, each
\* resource_obj with the uri it was constructed for
list_loop(uris, i, acc, full_properties, filter_args, calls, oracle) ==
    IF i > Len(uris) THEN Return(acc, NoneValue, calls)
    ELSE
    Bind(Hba_init("HbaManager", uris[i], NoneValue, NoneValue), LAMBDA c :
    IF c.outcome # "return" THEN Raise(c.outcome, NoneValue, calls)
    ELSE
    Bind(matches_filters(c.self, filter_args, calls, oracle), LAMBDA m :
    IF m.outcome # "return" THEN Raise(m.outcome, NoneValue, m.calls)
    ELSE IF ~m.value
    THEN list_loop(uris, i + 1, acc, full_properties, filter_args, m.calls, oracle)
    ELSE IF ~full_properties
    THEN list_loop(uris, i + 1, Append(acc, [uri |-> uris[i], res |-> m.self]),
                   full_properties, filter_args, m.calls, oracle)
    ELSE
    Bind(pull_full_properties(m.self, m.calls, oracle, 2), LAMBDA p :
    IF p.outcome # "return" THEN Raise(p.outcome, NoneValue, p.calls)
    ELSE list_loop(uris, i + 1, Append(acc, [uri |-> uris[i], res |-> p.self]),
                   full_properties, filter_args, p.calls, oracle))))

\* list answering a failed read of the child URIs with an empty list
HbaManager_list_swallow(partition, full_properties, filter_args, oracle) ==
    Bind(get_property(partition, "hba-uris", <<>>, oracle, 2), LAMBDA g :
    IF g.outcome # "return" THEN Return(<<>>, g.self, g.calls)
    ELSE IF Len(g.value) = 0 THEN Return(<<>>, g.self, g.calls)
    ELSE
    Bind(list_loop(g.value, 1, <<>>, full_properties, filter_args,
                   g.calls, oracle),
         LAMBDA l : [l EXCEPT !.self = g.self]))

\* HbaManager.list(full_properties, filter_args) of the manager of partition;
\* self is the partition after the call.
HbaManager_list(partition, full_properties, filter_args, oracle) ==
    Bind(get_property(partition, "hba-uris", <<>>, oracle, 2), LAMBDA g :
    IF g.outcome # "return" THEN g
    ELSE IF Len(g.value) = 0 THEN Return(<<>>, g.self, g.calls)
    ELSE
    Bind(list_loop(g.value, 1, <<>>, full_properties, filter_args,
                   g.calls, oracle),
         LAMBDA l : [l EXCEPT !.self = g.self]))

\* The uri attribute of the partition.
BaseResource_uri(self) == self.properties["object-uri"]

\* session.post(uri, body), answered by response when it succeeds
session_post(parent, calls, oracle, response) ==
    IF oracle.at = Len(calls) + 1 THEN [outcome |-> oracle.kind, value |-> EmptyMap]
    ELSE IF ~remote[parent].exists THEN [outcome |-> "NotFoundError", value |-> EmptyMap]
    ELSE [outcome |-> "return", value |-> response]

\* a call's result together with given, the caller's dictionary as the call
\* leaves it
Leaving(r, given) ==
    [outcome |-> r.outcome, value |-> r.value, self |-> r.self,
     calls |-> r.calls, given |-> given]

\* HbaManager.create(properties); value is the Hba returned. props is a copy
\* of properties, so the update goes to the copy.
HbaManager_create(partition, properties, oracle, response) ==
    LET parent == BaseResource_uri(partition) IN
    Bind(session_post(parent, <<>>, oracle, response), LAMBDA result :
    LET issued == <<[method |-> "post", uri |-> parent \o "/hbas",
                     result |-> result.outcome]>>
    IN
    IF result.outcome # "return"
    THEN Leaving(Raise(result.outcome, partition, issued), properties)
    ELSE
    LET props == update(properties, result.value) IN
    IF "element-uri" \notin DOMAIN props
    THEN Leaving(Raise("KeyError", partition, issued), properties)
    ELSE
    Bind(Hba_init("HbaManager", props["element-uri"], NoneValue, props), LAMBDA h :
    IF h.outcome # "return"
    THEN Leaving(Raise(h.outcome, partition, issued), properties)
    ELSE Leaving(Return(h.self, partition, issued), properties)))

\* the dictionaries a caller hands to create, and what the HMC answers
CreateProps == { ("name" :> "a") }

PostResponses ==
    { ("element-uri" :> "/h2"),
      ("element-uri" :> "/h2") @@ ("name" :> "b"),
      ("name" :> "b") }

\* ---------------------------------------------------------------------- Hba
\* reading the attribute a of self: Python raises AttributeError when no
\* assignment has created it
HasAttr(self, a) == a \in DOMAIN self

\* session.delete(uri)
session_delete(uri, calls, oracle) ==
    IF oracle.at = Len(calls) + 1 THEN [outcome |-> oracle.kind, value |-> NoneValue]
    ELSE IF ~remote[uri].exists THEN [outcome |-> "NotFoundError", value |-> NoneValue]
    ELSE [outcome |-> "return", value |-> NoneValue]

\* Hba.delete(self)
Hba_delete(self, oracle) ==
    IF ~HasAttr(self, "_uri") THEN Raise("AttributeError", self, <<>>)
    ELSE
    Bind(session_delete(self._uri, <<>>, oracle), LAMBDA r :
    LET issued == <<[method |-> "delete", uri |-> self._uri,
                     result |-> r.outcome]>>
    IN  IF r.outcome # "return" THEN Raise(r.outcome, self, issued)
        ELSE Return(NoneValue, self, issued))

\* Hba.update_properties(self, properties)
Hba_update_properties(self, properties, oracle) ==
    IF ~HasAttr(self, "_uri") THEN Raise("AttributeError", self, <<>>)
    ELSE
    Bind(session_post(self._uri, <<>>, oracle, NoneValue), LAMBDA r :
    LET issued == <<[method |-> "post", uri |-> self._uri,
                     result |-> r.outcome]>>
    IN  IF r.outcome # "return" THEN Raise(r.outcome, self, issued)
        ELSE Return(NoneValue, self, issued))

\* Hba.reassign_port(self, port); the body is built from port.uri before
\* self._uri is read
Hba_reassign_port(self, port, oracle) ==
    IF ~HasAttr(port, "uri") THEN Raise("AttributeError", self, <<>>)
    ELSE IF ~HasAttr(self, "_uri") THEN Raise("AttributeError", self, <<>>)
    ELSE
    Bind(session_post(self._uri, <<>>, oracle, NoneValue), LAMBDA r :
    LET issued == <<[method |-> "post",
                     uri |-> self._uri \o "/operations/reassign-storage-adapter-port",
                     result |-> r.outcome]>>
    IN  IF r.outcome # "return" THEN Raise(r.outcome, self, issued)
        ELSE Return(NoneValue, self, issued))

\* the dictionaries a caller hands to update_properties, and the ports to
\* reassign_port
UpdateProps == { ("name" :> "b") }
Ports == { [uri |-> "/a1/ports/0"] }

\* ------------------------------------------------------------------- state

\* The observation of an operation: args what it was given, pre and post the
\* object it was called on (for list and create: the partition) before and
\* after, and what the call did.
Observed(op, obj, args, pre, r) ==
    [op |-> op, obj |-> obj, args |-> args, pre |-> pre, post |-> r.self,
     outcome |-> r.outcome, value |-> r.value, calls |-> r.calls]

\* no operation of the client has run since the environment last moved
Idle == Observed("none", 0, <<>>, NoObj, Return(NoneValue, NoObj, <<>>))

Init ==
    /\ objs = <<>>
    /\ remote = [u \in URIs |->
                    [exists |-> TRUE,
                     props |-> CHOOSE m \in RemoteMaps(u) : "name" \in DOMAIN m]]
    /\ clock = 0
    /\ last = Idle

\* A call is synchronous: the caller and the environment move between calls.
\* the caller has taken the result of the call
CallerResumes ==
    /\ last # Idle
    /\ last' = Idle
    /\ UNCHANGED <<objs, remote, clock>>

\* time passes
Tick ==
    /\ last = Idle
    /\ clock < MaxClock
    /\ clock' = clock + 1
    /\ last' = Idle
    /\ UNCHANGED <<objs, remote>>

\* another client changes, creates or deletes the entity under a URI
RemoteChange ==
    \E u \in Volatile : \E e \in RemoteEntities(u) :
        /\ last = Idle
        /\ remote[u] # e
        /\ remote' = [remote EXCEPT ![u] = e]
        /\ last' = Idle
        /\ UNCHANGED <<objs, clock>>

\* BaseResource(manager, properties)
Construct ==
    \E props \in InitProps :
        /\ last = Idle
        /\ Len(objs) < MaxObjs
        /\ \E r \in {BaseResource_init(<<"manager", props>>)} :
            /\ objs' = Append(objs, r.self)
            /\ last' = Observed("init", Len(objs) + 1, [properties |-> props],
                                NoObj, r)
        /\ UNCHANGED <<remote, clock>>

\* obj.get_property(name)
GetProperty ==
    \E i \in 1..Len(objs) : \E name \in PropNames : \E oracle \in Oracles :
        /\ last = Idle
        /\ \E r \in {get_property(objs[i], name, <<>>, oracle, 1)} :
            /\ objs' = [objs EXCEPT ![i] = r.self]
            /\ last' = Observed("get_property", i, [name |-> name], objs[i], r)
        /\ UNCHANGED <<remote, clock>>

\* pull_full_properties writing to every object that holds the same properties
PullFullProperties_shared ==
    \E i \in 1..Len(objs) : \E oracle \in Oracles :
        /\ last = Idle
        /\ \E r \in {pull_full_properties(objs[i], <<>>, oracle, 1)} :
            /\ objs' = [j \in 1..Len(objs) |->
                          IF objs[j].properties = objs[i].properties
                          THEN r.self ELSE objs[j]]
            /\ last' = Observed("pull_full_properties", i, <<>>, objs[i], r)
        /\ UNCHANGED <<remote, clock>>

\* obj.pull_full_properties()
PullFullProperties ==
    \E i \in 1..Len(objs) : \E oracle \in Oracles :
        /\ last = Idle
        /\ \E r \in {pull_full_properties(objs[i], <<>>, oracle, 1)} :
            /\ objs' = [objs EXCEPT ![i] = r.self]
            /\ last' = Observed("pull_full_properties", i, <<>>, objs[i], r)
        /\ UNCHANGED <<remote, clock>>

\* HbaManager(partition).list(full_properties, filter_args)
List ==
    \E i \in 1..Len(objs) : \E full_properties \in BOOLEAN :
    \E filter_args \in Filters : \E oracle \in Oracles :
        /\ last = Idle
        /\ \E r \in {HbaManager_list(objs[i], full_properties, filter_args, oracle)} :
            /\ objs' = [objs EXCEPT ![i] = r.self]
            /\ last' = Observed("list", i,
                                [full_properties |-> full_properties,
                                 filter_args |-> filter_args],
                                objs[i], r)
        /\ UNCHANGED <<remote, clock>>

\* HbaManager(partition).create(properties)
Create ==
    \E i \in 1..Len(objs) : \E properties \in CreateProps :
    \E response \in PostResponses : \E oracle \in Oracles :
        /\ last = Idle
        /\ "object-uri" \in DOMAIN objs[i].properties
        /\ \E r \in {HbaManager_create(objs[i], properties, oracle, response)} :
            /\ objs' = [objs EXCEPT ![i] = r.self]
            /\ last' = Observed("create", i,
                                [properties |-> properties, response |-> response,
                                 after |-> r.given],
                                objs[i], r)
        /\ UNCHANGED <<remote, clock>>

\* the HMC's side of a completed delete: the entity is gone
Deleted(r) ==
    IF r.outcome = "return" /\ Len(r.calls) = 1 /\ r.calls[1].method = "delete"
    THEN [remote EXCEPT ![r.calls[1].uri] = [exists |-> FALSE, props |-> EmptyMap]]
    ELSE remote

\* obj.delete()
Delete ==
    \E i \in 1..Len(objs) : \E oracle \in Oracles :
        /\ last = Idle
        /\ \E r \in {Hba_delete(objs[i], oracle)} :
            /\ objs' = [objs EXCEPT ![i] = r.self]
            /\ remote' = Deleted(r)
            /\ last' = Observed("delete", i, <<>>, objs[i], r)
        /\ UNCHANGED clock

\* obj.update_properties(properties)
UpdateProperties ==
    \E i \in 1..Len(objs) : \E properties \in UpdateProps : \E oracle \in Oracles :
        /\ last = Idle
        /\ \E r \in {Hba_update_properties(objs[i], properties, oracle)} :
            /\ objs' = [objs EXCEPT ![i] = r.self]
            /\ last' = Observed("update_properties", i,
                                [properties |-> properties], objs[i], r)
        /\ UNCHANGED <<remote, clock>>

\* obj.reassign_port(port)
ReassignPort ==
    \E i \in 1..Len(objs) : \E port \in Ports : \E oracle \in Oracles :
        /\ last = Idle
        /\ \E r \in {Hba_reassign_port(objs[i], port, oracle)} :
            /\ objs' = [objs EXCEPT ![i] = r.self]
            /\ last' = Observed("reassign_port", i, [port |-> port], objs[i], r)
        /\ UNCHANGED <<remote, clock>>

\* The caller changes the dictionary it constructed objs[i] from, into d.
\* The object sees the change when its _properties is that dictionary.
CallerModifies ==
    \E i \in 1..Len(objs) : \E d \in InitProps :
        /\ last = Idle
        /\ \E r \in {Return(NoneValue,
                            IF objs[i].shares
                            THEN [objs[i] EXCEPT !.properties = d]
                            ELSE objs[i],
                            <<>>)} :
            /\ objs' = [objs EXCEPT ![i] = r.self]
            /\ last' = Observed("caller_modifies", i, [properties |-> d],
                                objs[i], r)
        /\ UNCHANGED <<remote, clock>>

Next ==
    \/ CallerResumes
    \/ Tick
    \/ RemoteChange
    \/ Construct
    \/ GetProperty
    \/ PullFullProperties
    \/ List
    \/ Create
    \/ Delete
    \/ UpdateProperties
    \/ ReassignPort
    \/ CallerModifies

Spec == Init /\ [][Next]_vars

\* ================================================================ properties
TransportFailures == ErrorKinds \cup {"NotFoundError"}

Name == last.args.name
Absent(obj, n) == n \notin DOMAIN obj.properties
FailedCalls == {k \in 1..Len(last.calls) : last.calls[k].result # "return"}
IsGet(k) == last.calls[k].method = "get"

\* C1: get_property of a name that an incomplete object does not hold issues
\* exactly one transport get; when the get succeeds, the name's fetched value
\* is returned if the fetched properties have it, and otherwise KeyError is
\* raised and the object is complete.
C1_SingleRetry ==
    (last.op = "get_property" /\ ~last.pre.full /\ Absent(last.pre, Name))
        => /\ Len(last.calls) = 1
           /\ IsGet(1)
           /\ FailedCalls = {}
                => LET fetched == remote[last.calls[1].uri].props IN
                   IF Name \in DOMAIN fetched
                   THEN last.outcome = "return" /\ last.value = fetched[Name]
                   ELSE last.outcome = "KeyError" /\ last.post.full

\* C2: get_property of a name that a complete object does not hold raises
\* KeyError, issues no transport call and leaves the object as it was.
C2_NoDoubleFetch ==
    (last.op = "get_property" /\ last.pre.full /\ Absent(last.pre, Name))
        => /\ last.outcome = "KeyError"
           /\ last.calls = <<>>
           /\ last.post = last.pre
           /\ objs[last.obj] = last.pre

C2_Witness ==
    /\ last.op = "get_property"
    /\ last.pre.full
    /\ Absent(last.pre, Name)
    /\ "object-uri" \in DOMAIN last.pre.properties
    /\ remote[last.pre.properties["object-uri"]].exists
    /\ last.outcome = "KeyError"

\* C3: get_property of a name the object holds returns the held value, issues
\* no transport call and leaves properties, flag and timestamp as they were.
C3_CacheHit ==
    (last.op = "get_property" /\ ~Absent(last.pre, Name))
        => /\ last.outcome = "return"
           /\ last.value = last.pre.properties[Name]
           /\ last.calls = <<>>
           /\ last.post = last.pre
           /\ objs[last.obj] = last.pre

\* a cache hit on a value the HMC no longer has
C3_Witness ==
    /\ last.op = "get_property"
    /\ Name = "name"
    /\ ~Absent(last.pre, "name")
    /\ ~Absent(last.pre, "object-uri")
    /\ LET e == remote[last.pre.properties["object-uri"]] IN
          /\ e.exists
          /\ "name" \in DOMAIN e.props
          /\ e.props["name"] # last.pre.properties["name"]
    /\ last.outcome = "return"
    /\ last.value = last.pre.properties["name"]

\* C4: when the transport get of pull_full_properties fails, called directly
\* or by get_property, the object is left as it was and the call raises the
\* transport's error.
C4_AtomicReplace ==
    (last.op \in {"pull_full_properties", "get_property"} /\ FailedCalls # {})
        => /\ last.post = last.pre
           /\ objs[last.obj] = last.pre
           /\ FailedCalls = {Len(last.calls)}
           /\ last.outcome = last.calls[Len(last.calls)].result
           /\ last.outcome \in TransportFailures

\* a get_property whose implied pull the transport refuses
C4_Witness ==
    /\ last.op = "get_property"
    /\ FailedCalls # {}
    /\ last.outcome = "AuthError"
    /\ clock > last.pre.ts
    /\ ~last.post.full

\* ------------------------------------------------------------------- list
FilterArgs == last.args.filter_args

\* the URIs that list read from the partition
ChildUris == last.post.properties["hba-uris"]

\* an entity of the HMC has the property an item names, with a value the
\* item accepts
RemoteMatchesItem(u, item) ==
    /\ item.name \in DOMAIN remote[u].props
    /\ \E k \in 1..Len(item.vals) : item.vals[k] = remote[u].props[item.name]

RemoteMatches(u, filter_args) ==
    \A k \in 1..Len(filter_args.items) : RemoteMatchesItem(u, filter_args.items[k])

RECURSIVE Select(_, _)
\* the URIs of uris, in order, whose entities match the filter
Select(uris, filter_args) ==
    IF uris = <<>> THEN <<>>
    ELSE IF RemoteMatches(Head(uris), filter_args)
         THEN <<Head(uris)>> \o Select(Tail(uris), filter_args)
         ELSE Select(Tail(uris), filter_args)

ResultUris == [k \in 1..Len(last.value) |-> last.value[k].uri]

RECURSIVE IsSubseq(_, _)
\* s is t with some elements left out
IsSubseq(s, t) ==
    IF s = <<>> THEN TRUE
    ELSE IF t = <<>> THEN FALSE
    ELSE IF Head(s) = Head(t) THEN IsSubseq(Tail(s), Tail(t))
    ELSE IsSubseq(s, Tail(t))

\* list read the child URIs, every child exists on the HMC with every property
\* the filter names, and the transport refused no call
ListCanAnswer ==
    /\ last.op = "list"
    /\ FailedCalls = {}
    /\ ~Absent(last.post, "hba-uris")
    /\ \A k \in 1..Len(ChildUris) :
          /\ remote[ChildUris[k]].exists
          /\ \A j \in 1..Len(FilterArgs.items) :
                FilterArgs.items[j].name \in DOMAIN remote[ChildUris[k]].props

\* C5: list returns a resource for exactly the child URIs whose entities match
\* every item of the filter, and for every child URI when the filter is None
\* or empty.
C5_FilterCorrectness ==
    ListCanAnswer
        => /\ last.outcome = "return"
           /\ ResultUris = Select(ChildUris, FilterArgs)

\* C6: list without a filter, over child URIs the partition holds, returns
\* resources in the order of the child URIs, at most one for each occurrence
\* of a URI.
C6_OrderPreserved ==
    (/\ last.op = "list"
     /\ ~Absent(last.pre, "hba-uris")
     /\ FilterArgs.isNone
     /\ ~last.args.full_properties)
        => /\ last.outcome = "return"
           /\ IsSubseq(ResultUris, last.pre.properties["hba-uris"])

\* C8: list of a partition that is complete and has no 'hba-uris', or whose
\* 'hba-uris' is empty, returns an empty list.
C8_NoChildrenIsEmpty ==
    (/\ last.op = "list"
     /\ FailedCalls = {}
     /\ \/ last.post.full /\ Absent(last.post, "hba-uris")
        \/ ~Absent(last.post, "hba-uris") /\ ChildUris = <<>>)
        => /\ last.outcome = "return"
           /\ last.value = <<>>

\* C9: list with a filter whose first item names a property that a child's
\* entity does not have raises KeyError.
C9_MissingFilterProperty ==
    (/\ last.op = "list"
     /\ FailedCalls = {}
     /\ ~Absent(last.post, "hba-uris")
     /\ \A k \in 1..Len(ChildUris) : remote[ChildUris[k]].exists
     /\ ~FilterArgs.isNone
     /\ FilterArgs.items # <<>>
     /\ \E k \in 1..Len(ChildUris) :
           FilterArgs.items[1].name \notin DOMAIN remote[ChildUris[k]].props)
        => last.outcome = "KeyError"

C7_CreateMerge ==
    (/\ last.op = "create"
     /\ FailedCalls = {}
     /\ "element-uri" \in DOMAIN last.args.response)
        => /\ Len(last.calls) = 1
           /\ last.calls[1].method = "post"
           /\ last.calls[1].uri = last.pre.properties["object-uri"] \o "/hbas"
           /\ last.outcome = "return"
           /\ DOMAIN last.value.properties
                = DOMAIN last.args.properties \cup DOMAIN last.args.response
           /\ \A n \in DOMAIN last.value.properties :
                last.value.properties[n]
                    = IF n \in DOMAIN last.args.response
                      THEN last.args.response[n]
                      ELSE last.args.properties[n]

\* ------------------------------------------------------ pull_full_properties
\* C11: after a successful pull_full_properties the properties are exactly
\* what the transport read under the object's 'object-uri', the object is
\* complete and its timestamp is the time of the pull.
C11_PullReplaces ==
    (last.op = "pull_full_properties" /\ last.outcome = "return")
        => /\ Len(last.calls) = 1
           /\ IsGet(1)
           /\ last.calls[1].uri = last.pre.properties["object-uri"]
           /\ last.post.properties = remote[last.calls[1].uri].props
           /\ last.post.full
           /\ last.post.ts = clock
           /\ last.post.ts >= last.pre.ts
           /\ objs[last.obj] = last.post

\* a later pull that drops a property the object held
C11_Witness ==
    /\ last.op = "pull_full_properties"
    /\ last.outcome = "return"
    /\ \E n \in DOMAIN last.pre.properties : Absent(last.post, n)
    /\ last.post.ts > last.pre.ts

\* ---------------------------------------------------------------------- Hba
HbaOps == {"delete", "update_properties", "reassign_port"}

\* C12: delete, update_properties and reassign_port each issue exactly one
\* transport call (a delete for delete, a post for the other two) and leave
\* the object's properties, completeness and timestamp as they were.
C12_OneCallNoUpdate ==
    last.op \in HbaOps
        => /\ Len(last.calls) = 1
           /\ last.calls[1].method = (IF last.op = "delete" THEN "delete" ELSE "post")
           /\ last.post = last.pre
           /\ objs[last.obj] = last.pre

\* --------------------------------------------------------------------- list
\* C13: list(full_properties=False, filter_args=None) over child URIs it can
\* read returns one bare resource for each child URI (not complete, holding
\* nothing but its identity) and issues no transport call but the partition's
\* own pull.
C13_BareListing ==
    (ListCanAnswer /\ FilterArgs.isNone /\ ~last.args.full_properties)
        => /\ Len(last.calls) <= 1
           /\ \A k \in 1..Len(last.calls) :
                 IsGet(k) /\ last.calls[k].uri = last.pre.properties["object-uri"]
           /\ last.outcome = "return"
           /\ Len(last.value) = Len(ChildUris)
           /\ \A k \in 1..Len(last.value) :
                 /\ last.value[k].uri = ChildUris[k]
                 /\ ~last.value[k].res.full
                 /\ DOMAIN last.value[k].res.properties \subseteq {"element-uri"}

\* the transport calls of the last operation that went to uri
CallsTo(uri) == {k \in 1..Len(last.calls) : last.calls[k].uri = uri}

\* C14: list(full_properties=False, C) with a non-empty filter C, over child
\* URIs it can read, fetches every candidate exactly once and returns exactly
\* the candidates whose entities match C.
C14_FilterFetchesOnce ==
    (/\ ListCanAnswer
     /\ ~FilterArgs.isNone
     /\ FilterArgs.items # <<>>
     /\ ~last.args.full_properties
     /\ ChildUris # <<>>)
        => /\ \A k \in 1..Len(ChildUris) :
                 Cardinality(CallsTo(ChildUris[k])) = 1
           /\ last.outcome = "return"
           /\ ResultUris = Select(ChildUris, FilterArgs)

\* ----------------------------------------------------------------- identity
\* the properties that carry a resource's URI
IdentityProps == {"object-uri", "element-uri"}

\* An object that no pull has completed holds the properties it was
\* constructed with.
KeepsIdentity(i) ==
    \A n \in IdentityProps :
        (~objs[i].full /\ n \in DOMAIN objs[i].properties)
            => /\ n \in DOMAIN objs'[i].properties
               /\ objs'[i].properties[n] = objs[i].properties[n]

\* C15: whatever the transport answers, an object's properties keep the
\* identity-bearing property the object was constructed with, with the value
\* it was constructed with.
C15_IdentityKept == [][\A i \in 1..Len(objs) : KeepsIdentity(i)]_vars

\* ----------------------------------------------------------------- create
\* C16: the resource that create returns after a successful post is complete.
C16_CreateComplete ==
    (/\ last.op = "create"
     /\ FailedCalls = {}
     /\ "element-uri" \in DOMAIN last.args.response)
        => /\ last.outcome = "return"
           /\ last.value.full

\* ------------------------------------------------------------------ copying
\* C17: the dictionary given to the constructor or to create is copied: create
\* leaves the caller's dictionary as it was, and a later change of the
\* caller's dictionary changes nothing of the object built from it.
C17_InputCopied ==
    /\ last.op = "create" => last.args.after = last.args.properties
    /\ last.op = "caller_modifies"
          => /\ last.post = last.pre
             /\ objs[last.obj] = last.pre

\* the caller changes its dictionary while the object still holds what it was
\* constructed with
C17_Witness ==
    /\ last.op = "caller_modifies"
    /\ ~last.pre.full
    /\ last.args.properties # last.pre.properties
    /\ objs[last.obj].properties = last.pre.properties

\* -------------------------------------------------------------- termination
\* C18: every get_property and every pull_full_properties comes to an end of
\* its own, after at most one transport get, whatever the object holds.
C18_Terminates ==
    last.op \in {"get_property", "pull_full_properties"}
        => /\ last.outcome # "RecursionError"
           /\ Len(last.calls) <= 1

\* ------------------------------------------------------------- completeness
\* the step ran an operation on objs[i] in which a transport get succeeded
PulledIn(i) ==
    /\ last'.obj = i
    /\ last'.op \in {"get_property", "pull_full_properties", "list"}
    /\ \E k \in 1..Len(last'.calls) :
          /\ last'.calls[k].method = "get"
          /\ last'.calls[k].result = "return"

\* C19: an object is not complete when constructed, becomes complete only in
\* an operation whose transport get succeeded, and once complete stays
\* complete in every operation, a failed pull included.
C19_CompleteMonotonic ==
    [][/\ \A i \in 1..Len(objs) :
            /\ objs[i].full => objs'[i].full
            /\ (~objs[i].full /\ objs'[i].full) => PulledIn(i)
       /\ \A i \in (Len(objs) + 1)..Len(objs') : ~objs'[i].full]_vars

\* a pull that the transport refused, on an object that was complete
C19_Witness ==
    /\ last.op = "pull_full_properties"
    /\ last.pre.full
    /\ last.outcome \in TransportFailures
    /\ objs[last.obj].full

====
